---- MODULE Spec2Model ----
(***************************************************************************)
(* libbitset: a bit vector packed into 64-bit atoms (src/bitset.c and      *)
(* include/bitset/bitset.h).                                               *)
(*                                                                         *)
(* An atom (uint64_t) is modelled as the set of its bit positions that hold*)
(* 1, a subset of 0..63, so that AND is intersection, OR is union, the     *)
(* population count is the cardinality and the count of trailing zeros is  *)
(* the least element.  A bitset_t is a record                              *)
(*   [nbits, natoms, alloc, bits]                                          *)
(* where bits is the heap buffer, a function on 0..natoms-1, and alloc     *)
(* tells whether bs->bits points to a live buffer.                         *)
(*                                                                         *)
(* Four functions (get, set, unset, set_bit) are also given as inline       *)
(* definitions in the header; the external definitions of bitset.c, which  *)
(* are what the library archive holds, are the ones modelled.              *)
(*                                                                         *)
(* A C function whose result the language leaves open (a shift by the      *)
(* width of the type, ctz of 0, a read of memory malloc/realloc did not    *)
(* initialise, a read past the buffer) is an operator that returns the SET *)
(* of its possible outcomes; the action calling it picks one.              *)
(***************************************************************************)
EXTENDS Integers, FiniteSets, Sequences, TLC

\* ------------------------------------------------------------------ bounds

\* Largest number of atoms a modelled bitset holds.
MaxAtoms == 3

\* ------------------------------------------------------- program constants

\* #define BITS_PER_ATOM (sizeof(bitset_atom_t) * 8), bitset_atom_t = uint64_t
BITS_PER_ATOM == 64

\* Width of int, the type of the literal 1 in (1 << ...), on the ABIs gcc targets.
INT_BITS == 32

\* #define BITSET_ATOM_MAX UINT64_MAX: every bit position holds 1.
BITSET_ATOM_MAX == 0 .. (BITS_PER_ATOM - 1)

\* #define BITS_TO_NATOMS(_bits)
BITS_TO_NATOMS(n) ==
    (n \div BITS_PER_ATOM) + (IF (n % BITS_PER_ATOM) # 0 THEN 1 ELSE 0)

\* ------------------------------------------------------ machine arithmetic

Min(S) == CHOOSE x \in S : \A y \in S : x <= y

\* A small non-negative integer converted to uint64_t / unsigned long.
NumToAtom(v) == { p \in 0 .. (INT_BITS - 2) : (v \div (2 ^ p)) % 2 = 1 }

\* x & m for m a power of two: m when that bit of x is 1, else 0.
\* The source writes (bit & BITS_PER_ATOM) where an offset (bit % BITS_PER_ATOM)
\* is meant; this is the expression as written.
BitAndPow2(x, m) == IF (x \div m) % 2 = 1 THEN m ELSE 0

\* (1 << s) with the int literal 1.  A count >= the width of int is undefined:
\* x86 masks the count to 5 bits, other targets and constant folding give 0.
\* The values are ints; s = 31 would overflow int and is undefined as well.
ShlOne(s) ==
    IF s < INT_BITS - 1 THEN { 2 ^ s }
    ELSE { 0 } \cup (IF s % INT_BITS < INT_BITS - 1 THEN { 2 ^ (s % INT_BITS) } ELSE {})

\* int m converted to bitset_atom_t (m >= 0).
IntToAtom(m) == NumToAtom(m)

\* ~m for an int m >= 0, converted to bitset_atom_t: sign extension sets all
\* the high bits.
NotIntToAtom(m) == BITSET_ATOM_MAX \ NumToAtom(m)

\* w << s on a 64-bit atom.  A count >= 64 is undefined: x86 masks the count to
\* 6 bits, other targets and constant folding give 0.
ShlAtom(w, s) ==
    IF s < BITS_PER_ATOM
    THEN { { p + s : p \in { q \in w : q + s < BITS_PER_ATOM } } }
    ELSE { {}, { p + (s % BITS_PER_ATOM) :
                   p \in { q \in w : q + (s % BITS_PER_ATOM) < BITS_PER_ATOM } } }

\* w >> s on a 64-bit atom, same rule.
ShrAtom(w, s) ==
    IF s < BITS_PER_ATOM
    THEN { { p - s : p \in { q \in w : q >= s } } }
    ELSE { {}, { p - (s % BITS_PER_ATOM) : p \in { q \in w : q >= s % BITS_PER_ATOM } } }

\* #define bitset_atom_popcnt __builtin_popcountl (unsigned long is 64 bits wide)
bitset_atom_popcnt(w) == Cardinality(w)

\* What __builtin_ctzl(0) can give: tzcnt and clz-based code give the width of
\* the operand, bsf leaves the destination register as it was (0 stands for it).
CtzOfZero == { 0, BITS_PER_ATOM }

\* #define bitset_atom_ctz __builtin_ctzl (unsigned long is 64 bits wide).  The
\* result for 0 is undefined.
bitset_atom_ctz(w) == IF w = {} THEN CtzOfZero ELSE { Min(w) }

\* ------------------------------------------------------------ model inputs

\* Contents a word of memory that was never written can hold.
GarbageWords == { {}, {0}, {5} }

\* Capacities handed to bitset_init / bitset_resize: none, one atom (twice, so
\* that a bitset can grow inside its last atom), and two bits into each
\* further atom.
Capacities ==
    { 0, 10, 20 } \cup { a * BITS_PER_ATOM + 2 : a \in 1 .. (MaxAtoms - 1) }

\* Bit indices handed to the single-bit operations and to bitset_next_set.
Indices ==
    { 0, 3, 4, 7 } \cup { a * BITS_PER_ATOM : a \in 1 .. (MaxAtoms - 1) }

\* Capacities and indices of the three-bitset specification.
AlgCapacities == { 10, BITS_PER_ATOM + 6 }
AlgIndices == { 3, BITS_PER_ATOM }

\* ------------------------------------------------------- storage lifecycle

\* A bitset_t whose buffer pointer is not usable (malloc returned NULL, or the
\* buffer was freed).
NoBuffer == << >>

\* int bitset_init(bitset_t* bs, size_t nbits): the possible outcomes.
bitset_init(b, nbits) ==
    LET n == BITS_TO_NATOMS(nbits) IN
    { [ b   |-> [ nbits |-> nbits, natoms |-> n, alloc |-> TRUE,
                  bits |-> [ i \in 0 .. (n - 1) |-> {} ] ],
        ret |-> 0,
        acc |-> 0 .. (n - 1) ],
      \* malloc returned NULL
      [ b   |-> [ nbits |-> nbits, natoms |-> n, alloc |-> FALSE, bits |-> NoBuffer ],
        ret |-> -1,
        acc |-> {} ] }

\* void bitset_wipe(bitset_t* bs)
bitset_wipe(b) ==
    { [ b |-> [ b EXCEPT !.alloc = FALSE, !.bits = NoBuffer ], ret |-> 0, acc |-> {} ] }

\* int bitset_resize(bitset_t* bitset, size_t nbits): realloc keeps the words
\* below min(old, new) and leaves the added words as the allocator found them;
\* nothing zeroes them.
bitset_resize(b, nbits) ==
    LET new_natoms == BITS_TO_NATOMS(nbits)
        kept == { i \in 0 .. (new_natoms - 1) : i < b.natoms }
        added == (0 .. (new_natoms - 1)) \ kept
    IN  { [ b   |-> [ nbits |-> nbits, natoms |-> new_natoms, alloc |-> TRUE,
                      bits |-> [ i \in 0 .. (new_natoms - 1) |->
                                   IF i \in kept THEN b.bits[i] ELSE g[i] ] ],
            ret |-> 0,
            acc |-> {} ] : g \in [ added -> GarbageWords ] }
        \cup
        \* realloc returned NULL: out of memory (buffer untouched), or a
        \* request of 0 bytes served by freeing the buffer.
        { [ b |-> b, ret |-> -1, acc |-> {} ] }
        \cup
        ( IF new_natoms = 0
          THEN { [ b |-> [ b EXCEPT !.alloc = FALSE, !.bits = NoBuffer ],
                   ret |-> -1, acc |-> {} ] }
          ELSE {} )

\* --------------------------------------------------- single bit manipulation

\* void bitset_set(bitset_t* bs, size_t bit)
\*     bs->bits[bit / BITS_PER_ATOM] |= (1 << (bit & BITS_PER_ATOM));
bitset_set(b, bit) ==
    LET atom == bit \div BITS_PER_ATOM IN
    { [ b   |-> [ b EXCEPT !.bits[atom] = @ \cup IntToAtom(m) ],
        ret |-> 0,
        acc |-> { atom } ] : m \in ShlOne(BitAndPow2(bit, BITS_PER_ATOM)) }

\* void bitset_unset(bitset_t* bs, size_t bit)
\*     bs->bits[bit / BITS_PER_ATOM] &= ~(1 << (bit & BITS_PER_ATOM));
bitset_unset(b, bit) ==
    LET atom == bit \div BITS_PER_ATOM IN
    { [ b   |-> [ b EXCEPT !.bits[atom] = @ \cap NotIntToAtom(m) ],
        ret |-> 0,
        acc |-> { atom } ] : m \in ShlOne(BitAndPow2(bit, BITS_PER_ATOM)) }

\* bit_t bitset_get(const bitset_t* bs, size_t bit)
\*     return (bs->bits[bit / BITS_PER_ATOM] >> (bit & BITS_PER_ATOM)) & 1;
bitset_get(b, bit) ==
    LET atom == bit \div BITS_PER_ATOM IN
    { [ b   |-> b,
        ret |-> IF 0 \in w THEN 1 ELSE 0,
        acc |-> { atom } ] : w \in ShrAtom(b.bits[atom], BitAndPow2(bit, BITS_PER_ATOM)) }

\* void bitset_set_bit(bitset_t* bs, size_t idx, bit_t bit): the parameter bit
\* is never read; the function unsets idx when bitset_get says it is set and
\* sets it otherwise.
bitset_set_bit(b, idx, bit) ==
    UNION { IF g.ret # 0
            THEN { [ o EXCEPT !.acc = @ \cup g.acc ] : o \in bitset_unset(b, idx) }
            ELSE { [ o EXCEPT !.acc = @ \cup g.acc ] : o \in bitset_set(b, idx) }
            : g \in bitset_get(b, idx) }

\* ------------------------------------------------------------ cool functions

\* What a read of bs->bits[i] can give: the word when i is inside the buffer,
\* whatever lies behind the buffer otherwise.
ReadWord(b, i) == IF i \in DOMAIN b.bits THEN { b.bits[i] } ELSE GarbageWords

\* size_t bitset_popcnt(const bitset_t* bs)
RECURSIVE popcnt_loop(_, _, _)
popcnt_loop(b, i, sum) ==
    IF i < b.natoms
    THEN popcnt_loop(b, i + 1, sum + bitset_atom_popcnt(b.bits[i]))
    ELSE sum

bitset_popcnt(b) ==
    { [ b |-> b, ret |-> popcnt_loop(b, 0, 0), acc |-> 0 .. (b.natoms - 1) ] }

\* while (bs->bits[atom] == 0 && atom < bs->natoms) atom++;
\* The word is read before the index is compared with natoms.  The result is
\* the set of pairs <<atom reached, indices read>>.
RECURSIVE scan_loop(_, _, _)
scan_loop(b, atom, read) ==
    UNION { IF w = {} /\ atom < b.natoms
            THEN scan_loop(b, atom + 1, read \cup { atom })
            ELSE { << atom, read \cup { atom } >> }
            : w \in ReadWord(b, atom) }

\* bitset_first_set with the slip bitset_next_set has: the trailing zeros of
\* the atom's index instead of those of the word.
bitset_first_set_ctz_of_index(b) ==
    UNION { IF s[1] = b.natoms
            THEN { [ b |-> b, ret |-> -1, acc |-> s[2] ] }
            ELSE { [ b |-> b, ret |-> s[1] * BITS_PER_ATOM + z, acc |-> s[2] ]
                   : z \in bitset_atom_ctz(NumToAtom(s[1])) }
            : s \in scan_loop(b, 0, {}) }

\* int bitset_first_set(const bitset_t* bs)
bitset_first_set(b) ==
    UNION { IF s[1] = b.natoms
            THEN { [ b |-> b, ret |-> -1, acc |-> s[2] ] }
            ELSE { [ b |-> b, ret |-> s[1] * BITS_PER_ATOM + z, acc |-> s[2] ]
                   : z \in bitset_atom_ctz(b.bits[s[1]]) }
            : s \in scan_loop(b, 0, {}) }

\* int bitset_next_set(const bitset_t* bs, size_t from)
\* In the first atom the function returns bitset_atom_ctz(atom), the trailing
\* zeros of the atom's INDEX, as the source has it.
bitset_next_set(b, from) ==
    LET atom == from \div BITS_PER_ATOM IN
    UNION { IF (b.bits[atom] \cap mask) # {}
            THEN { [ b |-> b, ret |-> atom * BITS_PER_ATOM + z, acc |-> { atom } ]
                   : z \in bitset_atom_ctz(NumToAtom(atom)) }
            ELSE UNION { IF s[1] = b.natoms
                         THEN { [ b |-> b, ret |-> -1, acc |-> { atom } \cup s[2] ] }
                         ELSE { [ b |-> b, ret |-> s[1] * BITS_PER_ATOM + z,
                                  acc |-> { atom } \cup s[2] ]
                                : z \in bitset_atom_ctz(b.bits[s[1]]) }
                         : s \in scan_loop(b, atom + 1, {}) }
            : mask \in ShlAtom(BITSET_ATOM_MAX, BitAndPow2(from, BITS_PER_ATOM)) }

\* ------------------------------------------------------------ sets functions
\* These work on the memory mem (the bitsets by name), so that dest, a and b
\* may name the same bitset and a store is seen by the loads that follow it.

\* void bitset_copy(bitset_t* dest, const bitset_t* src): memcpy of natoms words.
bitset_copy(mem, dest, src) ==
    [ mem EXCEPT ![dest].bits = [ i \in 0 .. (mem[src].natoms - 1) |-> mem[src].bits[i] ] ]

\* void bitset_and(bitset_t* a, const bitset_t* b)
RECURSIVE and_loop(_, _, _, _)
and_loop(mem, a, b, i) ==
    IF i < mem[a].natoms
    THEN and_loop([ mem EXCEPT ![a].bits[i] = @ \cap mem[b].bits[i] ], a, b, i + 1)
    ELSE mem

bitset_and(mem, a, b) == and_loop(mem, a, b, 0)

\* void bitset_and_to(bitset_t* dest, const bitset_t* a, const bitset_t* b)
RECURSIVE and_to_loop(_, _, _, _, _)
and_to_loop(mem, dest, a, b, i) ==
    IF i < mem[a].natoms
    THEN and_to_loop([ mem EXCEPT ![dest].bits[i] = mem[a].bits[i] \cap mem[b].bits[i] ],
                     dest, a, b, i + 1)
    ELSE mem

\* bitset_and_to with the body of bitset_and: dest->bits[i] &= b->bits[i].
bitset_and_to_in_place(mem, dest, a, b) == and_loop(mem, dest, b, 0)

bitset_and_to(mem, dest, a, b) == and_to_loop(mem, dest, a, b, 0)

\* void bitset_or_to(bitset_t* dest, const bitset_t* a, const bitset_t* b)
RECURSIVE or_to_loop(_, _, _, _, _)
or_to_loop(mem, dest, a, b, i) ==
    IF i < mem[a].natoms
    THEN or_to_loop([ mem EXCEPT ![dest].bits[i] = mem[a].bits[i] \cup mem[b].bits[i] ],
                    dest, a, b, i + 1)
    ELSE mem

bitset_or_to(mem, dest, a, b) == or_to_loop(mem, dest, a, b, 0)

\* void bitset_or(bitset_t* a, const bitset_t* b)
RECURSIVE or_loop(_, _, _, _)
or_loop(mem, a, b, i) ==
    IF i < mem[a].natoms
    THEN or_loop([ mem EXCEPT ![a].bits[i] = @ \cup mem[b].bits[i] ], a, b, i + 1)
    ELSE mem

bitset_or(mem, a, b) == or_loop(mem, a, b, 0)

VARIABLES
    bs,     \* the bitset_t objects, by name
    op,     \* the last function called
    tgt,    \* the bitset it was called on (dest for the pairwise functions)
    srcA,   \* operand a of the last pairwise function / src of copy
    srcB,   \* operand b of the last pairwise function
    arg,    \* its size_t argument (bit index or capacity)
    val,    \* its bit_t argument
    ret,    \* its return value
    acc,    \* the indices i of the words bits[i] it read or wrote
    plain   \* history: whether every bitset has been written by bitset_set
            \* and bitset_unset alone since its bitset_init

vars == << bs, op, tgt, srcA, srcB, arg, val, ret, acc, plain >>

\* ------------------------------------------------------------------ actions
\* One action per function of the library, called by the program that owns
\* the bitsets.  The guards are the functions' preconditions: the asserts of
\* the source and "must have been initialized" of the header.

Ids == DOMAIN bs

Usable(x) == bs[x].alloc

\* The functions that keep a bitset "written by set and unset alone".
PlainOps == { "set", "unset", "get", "popcnt", "first_set", "next_set" }

\* The call of a function on one bitset x, taking one of its outcomes o.
Call(name, x, i, v, o) ==
    /\ plain' = IF name = "init" THEN o.ret = 0 /\ (plain \/ Ids = { x })
                ELSE plain /\ name \in PlainOps
    /\ bs' = [ bs EXCEPT ![x] = o.b ]
    /\ op' = name
    /\ tgt' = x
    /\ srcA' = x
    /\ srcB' = x
    /\ arg' = i
    /\ val' = v
    /\ ret' = o.ret
    /\ acc' = o.acc

\* The call of a function on several bitsets, leaving memory mem.
CallMem(name, dest, a, b, mem) ==
    /\ plain' = FALSE
    /\ bs' = mem
    /\ op' = name
    /\ tgt' = dest
    /\ srcA' = a
    /\ srcB' = b
    /\ arg' = 0
    /\ val' = 0
    /\ ret' = 0
    /\ acc' = 0 .. (bs[a].natoms - 1)

Initialize(x, n) ==
    /\ ~ Usable(x)
    /\ \E o \in bitset_init(bs[x], n) : Call("init", x, n, 0, o)

Wipe(x) ==
    /\ Usable(x)
    /\ \E o \in bitset_wipe(bs[x]) : Call("wipe", x, 0, 0, o)

Resize(x, n) ==
    /\ Usable(x)
    /\ \E o \in bitset_resize(bs[x], n) : Call("resize", x, n, 0, o)

Set(x, i) ==
    /\ Usable(x)
    /\ i < bs[x].nbits
    /\ \E o \in bitset_set(bs[x], i) : Call("set", x, i, 0, o)

Unset(x, i) ==
    /\ Usable(x)
    /\ i < bs[x].nbits
    /\ \E o \in bitset_unset(bs[x], i) : Call("unset", x, i, 0, o)

Get(x, i) ==
    /\ Usable(x)
    /\ i < bs[x].nbits
    /\ \E o \in bitset_get(bs[x], i) : Call("get", x, i, 0, o)

SetTo(x, i, v) ==
    /\ Usable(x)
    /\ i < bs[x].nbits
    /\ \E o \in bitset_set_bit(bs[x], i, v) : Call("set_bit", x, i, v, o)

PopCount(x) ==
    /\ Usable(x)
    /\ \E o \in bitset_popcnt(bs[x]) : Call("popcnt", x, 0, 0, o)

FirstSet(x) ==
    /\ Usable(x)
    /\ \E o \in bitset_first_set(bs[x]) : Call("first_set", x, 0, 0, o)

NextSet(x, from) ==
    /\ Usable(x)
    /\ from < bs[x].nbits
    /\ \E o \in bitset_next_set(bs[x], from) : Call("next_set", x, from, 0, o)

\* memcpy forbids overlapping buffers, so dest and src are two bitsets.
Copy(dest, src) ==
    /\ Usable(dest) /\ Usable(src)
    /\ dest # src
    /\ bs[dest].natoms = bs[src].natoms
    /\ CallMem("copy", dest, src, src, bitset_copy(bs, dest, src))

Intersect(dest, a, b) ==
    /\ Usable(dest) /\ Usable(a) /\ Usable(b)
    /\ bs[a].natoms = bs[b].natoms
    /\ bs[dest].natoms = bs[a].natoms
    /\ CallMem("and_to", dest, a, b, bitset_and_to(bs, dest, a, b))

Union(dest, a, b) ==
    /\ Usable(dest) /\ Usable(a) /\ Usable(b)
    /\ bs[a].natoms = bs[b].natoms
    /\ bs[dest].natoms = bs[a].natoms
    /\ CallMem("or_to", dest, a, b, bitset_or_to(bs, dest, a, b))

IntersectInPlace(a, b) ==
    /\ Usable(a) /\ Usable(b)
    /\ bs[a].natoms = bs[b].natoms
    /\ CallMem("and", a, a, b, bitset_and(bs, a, b))

UnionInPlace(a, b) ==
    /\ Usable(a) /\ Usable(b)
    /\ bs[a].natoms = bs[b].natoms
    /\ CallMem("or", a, a, b, bitset_or(bs, a, b))

\* ----------------------------------------------------------- specifications

\* The bitsets right after bitset_init succeeded on each of them.
InitOf(names, caps) ==
    /\ bs \in [ names -> { o.b : o \in { q \in UNION { bitset_init(<< >>, n) : n \in caps }
                                         : q.ret = 0 } } ]
    /\ op = "init"
    /\ tgt \in names
    /\ srcA = tgt
    /\ srcB = tgt
    /\ arg = bs[tgt].nbits
    /\ val = 0
    /\ ret = 0
    /\ acc = 0 .. (bs[tgt].natoms - 1)
    /\ plain = TRUE

\* One bitset under every function that works on a single bitset.
Init == InitOf({ "a" }, Capacities)

Next ==
    \/ \E x \in Ids, n \in Capacities : Initialize(x, n)
    \/ \E x \in Ids : Wipe(x)
    \/ \E x \in Ids, n \in Capacities : Resize(x, n)
    \/ \E x \in Ids, i \in Indices : Set(x, i)
    \/ \E x \in Ids, i \in Indices : Unset(x, i)
    \/ \E x \in Ids, i \in Indices : Get(x, i)
    \/ \E x \in Ids, i \in Indices, v \in { 0, 1 } : SetTo(x, i, v)
    \/ \E x \in Ids : PopCount(x)
    \/ \E x \in Ids : FirstSet(x)
    \/ \E x \in Ids, from \in Indices : NextSet(x, from)

Spec == Init /\ [][Next]_vars

\* Three bitsets under the pairwise functions, dest, a and b free to coincide.
InitAlgebra == InitOf({ "a", "b", "dest" }, AlgCapacities)

NextAlgebra ==
    \/ \E x \in Ids, i \in AlgIndices : Set(x, i)
    \/ \E x \in Ids, n \in AlgCapacities : Resize(x, n)
    \/ \E dest \in Ids, src \in Ids : Copy(dest, src)
    \/ \E dest \in Ids, a \in Ids, b \in Ids : Intersect(dest, a, b)
    \/ \E dest \in Ids, a \in Ids, b \in Ids : Union(dest, a, b)
    \/ \E a \in Ids, b \in Ids : IntersectInPlace(a, b)
    \/ \E a \in Ids, b \in Ids : UnionInPlace(a, b)

SpecAlgebra == InitAlgebra /\ [][NextAlgebra]_vars

\* ------------------------------------------------------------- vocabulary

\* The values a call bitset_get(b, i) made now can return.
GetRets(b, i) == { o.ret : o \in bitset_get(b, i) }

\* The bit positions of the storage that hold 1, least significant bit first
\* within a word: position p of word w is index w * BITS_PER_ATOM + p.
StoredBits(b) ==
    UNION { { w * BITS_PER_ATOM + p : p \in b.bits[w] } : w \in DOMAIN b.bits }

\* The bitset the last call worked on.
Target == bs[tgt]

\* ------------------------------------------------------------------ claims

\* C1: after Set(i) a call Get(i) returns 1, and after Unset(i) a call Get(i)
\* returns 0, for every capacity and every i < nbits.
C1_SetUnsetGetRoundTrip ==
    plain =>
        /\ (op = "set" => GetRets(Target, arg) = { 1 })
        /\ (op = "unset" => GetRets(Target, arg) = { 0 })

\* C2: PopCount returns the number of indices i < nbits for which Get(i) is 1.
\* Where Get(i) has more than one possible result the count is only required
\* to lie between the indices that must read 1 and those that may read 1.
C2_PopCountCountsGetOnes ==
    (plain /\ op = "popcnt") =>
        LET must == { i \in 0 .. (Target.nbits - 1) : GetRets(Target, i) = { 1 } }
            may  == { i \in 0 .. (Target.nbits - 1) : 1 \in GetRets(Target, i) }
        IN  Cardinality(must) <= ret /\ ret <= Cardinality(may)

\* The words Intersect must leave in dest: the AND, word by word, of the words
\* a and b hold in memory mem.
WordwiseAnd(mem, a, b) ==
    [ i \in 0 .. (mem[a].natoms - 1) |-> mem[a].bits[i] \cap mem[b].bits[i] ]

\* The words Union must leave in dest: the OR, word by word.
WordwiseOr(mem, a, b) ==
    [ i \in 0 .. (mem[a].natoms - 1) |-> mem[a].bits[i] \cup mem[b].bits[i] ]

\* C3: Intersect(dest, a, b) leaves dest.word[i] = a.word[i] AND b.word[i] and
\* Union leaves a.word[i] OR b.word[i], from the words a and b held before the
\* call, also when dest is a or b; IntersectInPlace(a, b) and UnionInPlace(a, b)
\* give what Intersect(a, a, b) and Union(a, a, b) give; no bitset other than
\* the destination changes, and the destination keeps nbits and natoms.
C3_PairwiseWordByWord ==
    [][ /\ (op' \in { "and_to", "and" }) =>
               bs' = [ bs EXCEPT ![tgt'].bits = WordwiseAnd(bs, srcA', srcB') ]
        /\ (op' \in { "or_to", "or" }) =>
               bs' = [ bs EXCEPT ![tgt'].bits = WordwiseOr(bs, srcA', srcB') ]
        /\ (op' = "and") =>
               (srcA' = tgt' /\ bs' = bitset_and_to(bs, tgt', tgt', srcB'))
        /\ (op' = "or") =>
               (srcA' = tgt' /\ bs' = bitset_or_to(bs, tgt', tgt', srcB'))
      ]_vars

\* C3 witness: Intersect wrote into its own first operand, a bitset of two
\* words, and left it with a non-zero second word that differs from b's.
C3_Witness ==
    /\ op = "and_to"
    /\ tgt = srcA
    /\ tgt # srcB
    /\ bs[tgt].natoms = 2
    /\ bs[tgt].bits[1] # {}
    /\ bs[tgt].bits[1] # bs[srcB].bits[1]

C5_NextSetIsSmallestAtOrAfter ==
    op = "next_set" =>
        LET later == { i \in StoredBits(Target) : i >= arg }
        IN  ret = (IF later = {} THEN -1 ELSE Min(later))

\* C6: on a bitset with exactly one bit k set, FirstSet returns k, NextSet(k)
\* returns -1 and NextSet(j) returns k for every j < k.
C6_SingleBitScan ==
    Cardinality(StoredBits(Target)) = 1 =>
        LET k == Min(StoredBits(Target))
        IN  /\ (op = "first_set" => ret = k)
            /\ (op = "next_set" /\ arg = k => ret = -1)
            /\ (op = "next_set" /\ arg < k => ret = k)

\* C7: after SetTo(idx, v) a call Get(idx) returns v, whatever the bit held
\* before the call.
C7_SetToAssigns ==
    op = "set_bit" => GetRets(Target, arg) = { val }

\* C8: a successful Resize to a larger capacity keeps what Get returns for
\* every index below the old capacity, and every index from the old capacity
\* up to the new one reads 0.
C8_ResizeGrowth ==
    [][ (op' = "resize" /\ ret' = 0 /\ arg' > bs[tgt'].nbits) =>
            /\ \A i \in 0 .. (bs[tgt'].nbits - 1) :
                   GetRets(bs'[tgt'], i) = GetRets(bs[tgt'], i)
            /\ \A i \in bs[tgt'].nbits .. (arg' - 1) :
                   GetRets(bs'[tgt'], i) = { 0 }
      ]_vars

\* C9: Set(i) and Unset(i) leave what Get(j) returns as it was for every
\* j < nbits other than i, and leave nbits and natoms alone.
C9_SetUnsetFrame ==
    [][ (op' \in { "set", "unset" }) =>
            /\ \A j \in (0 .. (bs[tgt'].nbits - 1)) \ { arg' } :
                   GetRets(bs'[tgt'], j) = GetRets(bs[tgt'], j)
            /\ bs'[tgt'].nbits = bs[tgt'].nbits
            /\ bs'[tgt'].natoms = bs[tgt'].natoms
      ]_vars

\* C10: no function reads or writes a word bits[i] with i outside 0..natoms-1.
C10_AccessesInsideBuffer ==
    acc \subseteq 0 .. (Target.natoms - 1)

====
